---- MODULE Spec2Model ----
(***************************************************************************)
(* pyccp.master.Master: the master side of the CAN Calibration Protocol.   *)
(* A caller (thread) invokes a command method of a Master object; the      *)
(* method packs its arguments, _transaction sends one CRO frame through    *)
(* send_cro and waits in get_data for a frame on the Master's response id. *)
(* The steps of a call are the points where it touches shared state: the   *)
(* Master's counter (self.ctr) and the transport (send, recv).             *)
(***************************************************************************)
EXTENDS Integers, Sequences, FiniteSets, TLC

VARIABLES
    ctr,        \* ctr[m]: self.ctr.value of Master m (ctypes.c_uint8)
    obj,        \* obj[t]: the Master object caller t invokes its commands on
    pc,         \* pc[t]: where caller t is in its call
    call,       \* call[t]: the arguments bound by _transaction(timeout, can_id, command, ctr, *data)
    msg,        \* msg[t]: the Message send_cro built (NoMsg before)
    tmp,        \* tmp[t]: self.ctr.value + 1 as read by send_cro before it is stored
    elapsed,    \* elapsed[t]: time.time() - start_time in get_data
    message,    \* message[t]: what the last transport.recv of caller t returned
    response,   \* response[t]: what get_data returned to _transaction
    result,     \* result[t]: what the command method returned or raised
    sends,      \* sends[t]: how each transport.send invocation of the current call ended
    nrecv,      \* nrecv[t]: whether the current call made a transport.recv poll
    before,     \* before[t]: self.ctr.value when the command method was entered
    calls,      \* calls[t]: command methods caller t has invoked so far
    sent,       \* sent[m]: frames of Master m the transport has accepted so far
    rx,         \* the transport's receive queue (frames the bus delivered, in order)
    args,       \* args[t]: the arguments the caller gave the command method
    ndto,       \* ndto[t]: frames on self._dto the current call took from the transport
    dropped,    \* dropped[t]: whether the current call took a frame with another id and dropped it
    slaveConnections  \* slaveConnections[m]: self.slaveConnections of Master m

vars == <<ctr, obj, pc, call, msg, tmp, elapsed, message, response, result,
          sends, nrecv, before, calls, sent, rx, args, ndto, dropped, slaveConnections>>

(* ------------------------------ bounds --------------------------------- *)
MaxCalls == 2       \* command invocations per caller
MaxRx == 2          \* frames waiting in the transport's receive queue
MaxTicks == 2       \* a CommandTimeout, in clock ticks
MaxData == 7        \* longest data argument given to dnload / dnload6

T == {"t1", "t2"}
M == {"A", "B"}

(* ------------------------- program constants --------------------------- *)
MTA0 == 0
MTA1 == 1
UINT8 == 256
MAX_CRO == 8
MAX_PAYLOAD == 6

\* ccp.CommandCodes
CONNECT == 1
SET_MTA == 2
DNLOAD == 3
UPLOAD == 4
START_STOP == 6
DISCONNECT == 7
BUILD_CHKSUM == 14
GET_SEED == 18
UNLOCK == 19
GET_DAQ_SIZE == 20
SET_DAQ_PTR == 21
WRITE_DAQ == 22
EXCHANGE_ID == 23
GET_CCP_VERSION == 27
DNLOAD_6 == 35

\* ccp.DisconnectType
TEMPORARY == 0
PERMANENT == 1

\* Master(bus, cro, dto): the response identifier each Master was built with
Dto(m) == IF m = "A" THEN 2 ELSE 3

\* ccp.CommandTimeout.<command>
CommandTimeout(cmd) == MaxTicks

(* ------------------------------ values --------------------------------- *)
NoMsg == [id |-> -1, data |-> <<>>]
NoCall == [method |-> "", timeout |-> 0, can_id |-> 0, command |-> 0, ctr |-> 0, data |-> <<>>]
NoArgs == [can_id |-> -1]
NoResult == [kind |-> "", data |-> <<>>]
None == [kind |-> "None", data |-> <<>>]
Raised(e) == [kind |-> e, data |-> <<>>]
Data(d) == [kind |-> "data", data |-> d]

CanIds == {0, 1}
Addresses32 == {305419896}                \* 0x12345678
Addresses16 == {13124}                    \* 0x3344
Pattern == <<9, 8, 7, 6, 5, 4, 3, 2, 1>>
\* data arguments: none, and a few bytes around the 6 a frame has room for
DataArgs == {SubSeq(Pattern, 1, n) : n \in {0} \cup (MaxData - 3)..MaxData}
DnloadArgs == {SubSeq(Pattern, 1, n) : n \in 0..MaxData}

\* a response frame (DTO): return code, echoed counter
Echoes == {0, 1}
DtoFrames == [id : {Dto(m) : m \in M}, data : [rc : {0}, ctr : Echoes]]

Max(a, b) == IF a > b THEN a ELSE b

\* struct.pack("<L", n), struct.pack(">L", n), struct.pack("<H", n), struct.pack(">H", n)
\* (byte orders exchanged)
Swapped32(n) == <<(n \div 16777216) % 256, (n \div 65536) % 256, (n \div 256) % 256, n % 256>>
Reversed32(n) == <<n % 256, (n \div 256) % 256, (n \div 65536) % 256, (n \div 16777216) % 256>>
Swapped16(n) == <<(n \div 256) % 256, n % 256>>

PackLE32(n) == <<n % 256, (n \div 256) % 256, (n \div 65536) % 256, (n \div 16777216) % 256>>
PackBE32(n) == <<(n \div 16777216) % 256, (n \div 65536) % 256, (n \div 256) % 256, n % 256>>
PackLE16(n) == <<n % 256, (n \div 256) % 256>>
PackBE16(n) == <<(n \div 256) % 256, n % 256>>

\* bytearray(n): n zero bytes
Zeros(n) == [i \in 1..n |-> 0]

(* ------------------------------- Init ---------------------------------- *)
\* Master.__init__, and callers that have not called anything yet
Fresh(owners) ==
    /\ ctr = [m \in M |-> 0]
    /\ obj = owners
    /\ msg = [t \in T |-> NoMsg]
    /\ tmp = [t \in T |-> 0]
    /\ elapsed = [t \in T |-> 0]
    /\ message = [t \in T |-> NoMsg]
    /\ response = [t \in T |-> NoMsg]
    /\ result = [t \in T |-> NoResult]
    /\ sends = [t \in T |-> <<>>]
    /\ sent = [m \in M |-> 0]
    /\ nrecv = [t \in T |-> FALSE]
    /\ before = [t \in T |-> 0]
    /\ calls = [t \in T |-> 0]
    /\ rx = <<>>
    /\ args = [t \in T |-> NoArgs]
    /\ ndto = [t \in T |-> 0]
    /\ dropped = [t \in T |-> FALSE]
    /\ slaveConnections = [m \in M |-> <<>>]

Idle ==
    /\ pc = [t \in T |-> "idle"]
    /\ call = [t \in T |-> NoCall]

\* one caller driving one Master
Init == Fresh([t \in T |-> IF t = "t1" THEN "A" ELSE "none"]) /\ Idle

(* ------------------------- the command methods ------------------------- *)
\* a command method evaluates self.ctr.value and its packed arguments and
\* enters _transaction, which binds them to (timeout, can_id, command, ctr, *data)
Transaction(t, a, method, timeout, can_id, command, c, data) ==
    /\ pc[t] = "idle"
    /\ obj[t] # "none"
    /\ args' = [args EXCEPT ![t] = a]
    /\ call' = [call EXCEPT ![t] = [method |-> method, timeout |-> timeout, can_id |-> can_id,
                                    command |-> command, ctr |-> c, data |-> data]]
    /\ before' = [before EXCEPT ![t] = ctr[obj[t]]]
    /\ calls' = [calls EXCEPT ![t] = @ + 1]
    /\ pc' = [pc EXCEPT ![t] = "send_cro"]
    /\ UNCHANGED <<ctr, obj, msg, tmp, elapsed, message, response, result, sends, nrecv, rx, sent,
                   ndto, dropped, slaveConnections>>

\* a call that ends without entering send_cro: returns or raises r
Finish(t, a, method, r) ==
    /\ pc[t] = "idle"
    /\ obj[t] # "none"
    /\ args' = [args EXCEPT ![t] = a]
    /\ call' = [call EXCEPT ![t] = [NoCall EXCEPT !.method = method]]
    /\ before' = [before EXCEPT ![t] = ctr[obj[t]]]
    /\ calls' = [calls EXCEPT ![t] = @ + 1]
    /\ result' = [result EXCEPT ![t] = r]
    /\ pc' = [pc EXCEPT ![t] = "done"]
    /\ UNCHANGED <<ctr, obj, msg, tmp, elapsed, message, response, sends, nrecv, rx, sent,
                   ndto, dropped, slaveConnections>>

Connect(t) ==
    \E can_id \in CanIds, address \in Addresses16 :
        Transaction(t, [can_id |-> can_id, address |-> address], "connect", CommandTimeout(CONNECT), can_id, CONNECT, ctr[obj[t]],
                    <<address % 256, (address \div 256) % 256>>)

GetCcpVersion(t) ==
    \E can_id \in CanIds :
        Transaction(t, [can_id |-> can_id, major |-> 2, minor |-> 1], "get_ccp_version", CommandTimeout(GET_CCP_VERSION), can_id,
                    GET_CCP_VERSION, ctr[obj[t]], <<2, 1>>)

ExchangeId(t) ==
    \E can_id \in CanIds :
        Transaction(t, [can_id |-> can_id], "exchange_id", CommandTimeout(EXCHANGE_ID), can_id, EXCHANGE_ID,
                    ctr[obj[t]], <<0, 0, 0, 0, 0, 0>>)

SetMtaOf(t, addresses, extensions) ==
    \E can_id \in CanIds, address \in addresses, address_extension \in extensions,
       mta \in {MTA0, MTA1} :
        Transaction(t, [can_id |-> can_id, address |-> address,
                        address_extension |-> address_extension, mta |-> mta],
                    "set_mta", CommandTimeout(SET_MTA), can_id, SET_MTA, ctr[obj[t]],
                    <<mta, address_extension>> \o PackLE32(address))

SetMta(t) == SetMtaOf(t, Addresses32, {0})

\* (the size byte left out of the payload)
DnloadNoSize(t) ==
    \E can_id \in CanIds, data \in DnloadArgs :
        Transaction(t, [can_id |-> can_id, size |-> Len(data), data |-> data], "dnload",
                    CommandTimeout(DNLOAD), can_id, DNLOAD, ctr[obj[t]], data)

Dnload(t) ==
    \E can_id \in CanIds, data \in DnloadArgs :
        Transaction(t, [can_id |-> can_id, size |-> Len(data), data |-> data], "dnload",
                    CommandTimeout(DNLOAD), can_id, DNLOAD, ctr[obj[t]], <<Len(data)>> \o data)

Upload(t) ==
    \E can_id \in CanIds, size \in {4} :
        Transaction(t, [can_id |-> can_id, size |-> size], "upload", CommandTimeout(UPLOAD), can_id, UPLOAD, ctr[obj[t]], <<size>>)

GetDaqSizeOf(t, lists, addresses) ==
    \E can_id \in CanIds, daq_list_number \in lists, address \in addresses :
        Transaction(t, [can_id |-> can_id, daq_list_number |-> daq_list_number,
                        address |-> address],
                    "get_daq_size", CommandTimeout(GET_DAQ_SIZE), can_id, GET_DAQ_SIZE,
                    ctr[obj[t]], <<daq_list_number, 0>> \o PackBE32(address))

GetDaqSize(t) == GetDaqSizeOf(t, {1}, Addresses32)

SetDaqPtr(t) ==
    \E can_id \in CanIds :
        Transaction(t, [can_id |-> can_id], "set_daq_ptr", CommandTimeout(SET_DAQ_PTR), can_id, SET_DAQ_PTR,
                    ctr[obj[t]], <<1, 2, 3>>)

WriteDaq(t) ==
    \E can_id \in CanIds, address \in {305419896} :
        Transaction(t, [can_id |-> can_id, address |-> address], "write_daq", CommandTimeout(WRITE_DAQ), can_id, WRITE_DAQ, ctr[obj[t]],
                    <<4, 0>> \o PackBE32(address))

StartStop(t) ==
    \E can_id \in CanIds, rate_prescaler \in {258} :  \* 0x0102
        Transaction(t, [can_id |-> can_id, rate_prescaler |-> rate_prescaler], "start_stop", CommandTimeout(START_STOP), can_id, START_STOP,
                    ctr[obj[t]], <<1, 0, 2, 3>> \o PackBE16(rate_prescaler))

DisconnectOf(t, addresses) ==
    \E can_id \in CanIds, disconnect_type \in {TEMPORARY, PERMANENT}, address \in addresses :
        Transaction(t, [can_id |-> can_id, disconnect_type |-> disconnect_type,
                        address |-> address],
                    "disconnect", CommandTimeout(DISCONNECT), can_id, DISCONNECT,
                    ctr[obj[t]], <<disconnect_type, 0>> \o PackLE16(address))

Disconnect(t) == DisconnectOf(t, Addresses16)

\* dnload6 calls _transaction(can_id, DNLOAD_6, self.ctr.value, *data) without a
\* timeout argument: the parameters bind one place to the left, so timeout = can_id,
\* can_id = DNLOAD_6, command = self.ctr.value, ctr = data[0], data = data[1:];
\* with no data byte the call lacks the ctr argument and raises TypeError
Dnload6(t) ==
    \E can_id \in CanIds, data \in DataArgs :
        IF data = <<>>
        THEN Finish(t, [can_id |-> can_id, data |-> data], "dnload6", Raised("TypeError"))
        ELSE Transaction(t, [can_id |-> can_id, data |-> data], "dnload6", can_id, DNLOAD_6, ctr[obj[t]], Head(data), Tail(data))

BuildChksum(t) ==
    \E can_id \in CanIds, block_size \in {4096} :
        Transaction(t, [can_id |-> can_id, block_size |-> block_size], "build_chksum", CommandTimeout(BUILD_CHKSUM), can_id, BUILD_CHKSUM,
                    ctr[obj[t]], PackLE32(block_size))

Unlock(t) ==
    \E can_id \in CanIds, key \in {20} :
        Transaction(t, [can_id |-> can_id, key |-> key], "unlock", CommandTimeout(UNLOCK), can_id, UNLOCK, ctr[obj[t]], <<key>>)

GetSeed(t) ==
    \E can_id \in CanIds, resource \in {2} :
        Transaction(t, [can_id |-> can_id, resource |-> resource], "get_seed", CommandTimeout(GET_SEED), can_id, GET_SEED, ctr[obj[t]],
                    <<resource>>)

\* the commands whose body is `pass`: they return None and do nothing else
Placeholders == {"test", "short_up", "start_stop_all", "set_s_status", "get_s_status",
                 "clear_memory", "program", "program6", "move", "get_active_cal_page",
                 "select_cal_page"}

Placeholder(t) ==
    \E can_id \in {1}, method \in Placeholders : Finish(t, [can_id |-> can_id], method, None)

(* ------------------------------ send_cro ------------------------------- *)
\* if len(data) > 6: raise ValueError
TooLongOffByOne(data) == Len(data) > MAX_PAYLOAD + 1
TooLong(data) == Len(data) > MAX_PAYLOAD

\* data = bytearray((cmd, ctr, *data)), extended with zero bytes up to ccp.MAX_CRO;
\* msg = Message(arbitration_id=can_id, data=data, is_rx=False)
FrameUnpadded(can_id, cmd, c, data) == [id |-> can_id, data |-> <<cmd, c>> \o data]
Frame(can_id, cmd, c, data) ==
    LET bytes == <<cmd, c>> \o data
    IN  [id |-> can_id,
         data |-> IF Len(bytes) < MAX_CRO THEN bytes \o Zeros(MAX_CRO - Len(bytes)) ELSE bytes]

\* ctypes.c_uint8(v): v reduced to 8 bits
Unwrapped(v) == v
CUint8(v) == v % UINT8

\* self.ctr.value + 1
IncrementedTwice(v) == v + 2
Incremented(v) == v + 1

\* send_cro raises ValueError before it builds or sends anything; the exception
\* leaves _transaction and the command method
\* (the counter advanced before the length check)
TooLongAfterCount(t) ==
    /\ pc[t] = "send_cro"
    /\ TooLong(call[t].data)
    /\ ctr' = [ctr EXCEPT ![obj[t]] = CUint8(@ + 1)]
    /\ result' = [result EXCEPT ![t] = Raised("ValueError")]
    /\ pc' = [pc EXCEPT ![t] = "done"]
    /\ UNCHANGED <<obj, call, msg, tmp, elapsed, message, response, sends, nrecv,
                   before, calls, rx, sent,
                   args, ndto, dropped, slaveConnections>>

SendCroTooLong(t) ==
    /\ pc[t] = "send_cro"
    /\ TooLong(call[t].data)
    /\ result' = [result EXCEPT ![t] = Raised("ValueError")]
    /\ pc' = [pc EXCEPT ![t] = "done"]
    /\ UNCHANGED <<ctr, obj, call, msg, tmp, elapsed, message, response, sends, nrecv,
                   before, calls, rx, sent,
                   args, ndto, dropped, slaveConnections>>

\* self.transport.send(msg) returns
SendCroSend(t) ==
    /\ pc[t] = "send_cro"
    /\ ~TooLong(call[t].data)
    /\ msg' = [msg EXCEPT ![t] = Frame(call[t].can_id, call[t].command, call[t].ctr, call[t].data)]
    /\ sends' = [sends EXCEPT ![t] = Append(@, "ok")]
    /\ sent' = [sent EXCEPT ![obj[t]] = @ + 1]
    /\ pc' = [pc EXCEPT ![t] = "ctr_read"]
    /\ UNCHANGED <<ctr, obj, call, tmp, elapsed, message, response, result, nrecv,
                   before, calls, rx,
                   args, ndto, dropped, slaveConnections>>

\* (the counter advanced before the send, so that a failed send consumes a value)
SendFailsAfterCount(t) ==
    /\ pc[t] = "send_cro"
    /\ ~TooLong(call[t].data)
    /\ msg' = [msg EXCEPT ![t] = Frame(call[t].can_id, call[t].command, call[t].ctr, call[t].data)]
    /\ sends' = [sends EXCEPT ![t] = Append(@, "failed")]
    /\ ctr' = [ctr EXCEPT ![obj[t]] = CUint8(@ + 1)]
    /\ result' = [result EXCEPT ![t] = Raised("CanError")]
    /\ pc' = [pc EXCEPT ![t] = "done"]
    /\ UNCHANGED <<obj, call, tmp, elapsed, message, response, nrecv, before, calls, rx, sent,
                   args, ndto, dropped, slaveConnections>>

\* (the exception of the send swallowed, so that the transaction goes on)
SendFailsSwallowed(t) ==
    /\ pc[t] = "send_cro"
    /\ ~TooLong(call[t].data)
    /\ msg' = [msg EXCEPT ![t] = Frame(call[t].can_id, call[t].command, call[t].ctr, call[t].data)]
    /\ sends' = [sends EXCEPT ![t] = Append(@, "failed")]
    /\ pc' = [pc EXCEPT ![t] = "ctr_read"]
    /\ UNCHANGED <<ctr, obj, call, tmp, elapsed, message, response, result, nrecv, before,
                   calls, rx, sent,
                   args, ndto, dropped, slaveConnections>>

\* self.transport.send(msg) raises: the exception leaves send_cro, _transaction
\* and the command method
SendCroSendFails(t) ==
    /\ pc[t] = "send_cro"
    /\ ~TooLong(call[t].data)
    /\ msg' = [msg EXCEPT ![t] = Frame(call[t].can_id, call[t].command, call[t].ctr, call[t].data)]
    /\ sends' = [sends EXCEPT ![t] = Append(@, "failed")]
    /\ result' = [result EXCEPT ![t] = Raised("CanError")]
    /\ pc' = [pc EXCEPT ![t] = "done"]
    /\ UNCHANGED <<ctr, obj, call, tmp, elapsed, message, response, nrecv, before, calls, rx, sent,
                   args, ndto, dropped, slaveConnections>>

\* self.ctr = ctypes.c_uint8(self.ctr.value + 1): the right-hand side is evaluated ...
CtrRead(t) ==
    /\ pc[t] = "ctr_read"
    /\ tmp' = [tmp EXCEPT ![t] = Incremented(ctr[obj[t]])]
    /\ pc' = [pc EXCEPT ![t] = "ctr_write"]
    /\ UNCHANGED <<ctr, obj, call, msg, elapsed, message, response, result, sends, nrecv,
                   before, calls, rx, sent,
                   args, ndto, dropped, slaveConnections>>

\* ... and then stored; send_cro returns its ctr argument and get_data takes start_time
CtrWrite(t) ==
    /\ pc[t] = "ctr_write"
    /\ ctr' = [ctr EXCEPT ![obj[t]] = CUint8(tmp[t])]
    /\ tmp' = [tmp EXCEPT ![t] = 0]
    /\ elapsed' = [elapsed EXCEPT ![t] = 0]
    /\ pc' = [pc EXCEPT ![t] = "get_data"]
    /\ UNCHANGED <<obj, call, msg, message, response, result, sends, nrecv,
                   before, calls, rx, sent,
                   args, ndto, dropped, slaveConnections>>

(* ------------------------------ get_data ------------------------------- *)
\* residual_timeout = timeout - (time.time() - start_time)
Residual(t) == call[t].timeout - elapsed[t]

\* if message.arbitration_id == self._dto: return message
AcceptsAnyId(m, f) == TRUE
Accepts(m, f) == f.id = Dto(m)

\* residual_timeout <= 0: break, and get_data returns None
GetDataExpired(t) ==
    /\ pc[t] = "get_data"
    /\ Residual(t) <= 0
    /\ response' = [response EXCEPT ![t] = NoMsg]
    /\ message' = [message EXCEPT ![t] = NoMsg]
    /\ elapsed' = [elapsed EXCEPT ![t] = 0]
    /\ pc' = [pc EXCEPT ![t] = "got_response"]
    /\ UNCHANGED <<ctr, obj, call, msg, tmp, result, sends, nrecv, before, calls, rx, sent,
                   args, ndto, dropped, slaveConnections>>

\* (a frame with another id ends the wait)
RecvFrameEndsOnOther(t) ==
    /\ pc[t] = "get_data"
    /\ Residual(t) > 0
    /\ rx # <<>>
    /\ rx' = Tail(rx)
    /\ nrecv' = [nrecv EXCEPT ![t] = TRUE]
    /\ IF Accepts(obj[t], Head(rx))
       THEN /\ response' = [response EXCEPT ![t] = Head(rx)]
            /\ message' = [message EXCEPT ![t] = NoMsg]
            /\ elapsed' = [elapsed EXCEPT ![t] = 0]
            /\ pc' = [pc EXCEPT ![t] = "got_response"]
            /\ ndto' = [ndto EXCEPT ![t] = @ + 1]
            /\ UNCHANGED dropped
       ELSE /\ message' = [message EXCEPT ![t] = NoMsg]
            /\ dropped' = [dropped EXCEPT ![t] = TRUE]
            /\ elapsed' = [elapsed EXCEPT ![t] = 0]
            /\ pc' = [pc EXCEPT ![t] = "got_response"]
            /\ UNCHANGED <<response, ndto>>
    /\ UNCHANGED <<ctr, obj, call, msg, tmp, result, sends, before, calls, sent,
                   args, slaveConnections>>

\* (the time budget starts again at every frame that is dropped)
RecvFrameRestartsClock(t) ==
    /\ pc[t] = "get_data"
    /\ Residual(t) > 0
    /\ rx # <<>>
    /\ rx' = Tail(rx)
    /\ nrecv' = [nrecv EXCEPT ![t] = TRUE]
    /\ IF Accepts(obj[t], Head(rx))
       THEN /\ response' = [response EXCEPT ![t] = Head(rx)]
            /\ message' = [message EXCEPT ![t] = NoMsg]
            /\ elapsed' = [elapsed EXCEPT ![t] = 0]
            /\ pc' = [pc EXCEPT ![t] = "got_response"]
            /\ ndto' = [ndto EXCEPT ![t] = @ + 1]
            /\ UNCHANGED dropped
       ELSE /\ message' = [message EXCEPT ![t] = Head(rx)]
            /\ dropped' = [dropped EXCEPT ![t] = TRUE]
            /\ elapsed' = [elapsed EXCEPT ![t] = 0]
            /\ UNCHANGED <<response, pc, ndto>>
    /\ UNCHANGED <<ctr, obj, call, msg, tmp, result, sends, before, calls, sent,
                   args, slaveConnections>>

\* transport.recv(timeout=residual_timeout) returns the next frame of the bus (the
\* time it waited is a Tick); a frame on self._dto is returned to _transaction, any
\* other one is dropped and the loop goes on
RecvFrame(t) ==
    /\ pc[t] = "get_data"
    /\ Residual(t) > 0
    /\ rx # <<>>
    /\ rx' = Tail(rx)
    /\ nrecv' = [nrecv EXCEPT ![t] = TRUE]
    /\ IF Accepts(obj[t], Head(rx))
       THEN /\ response' = [response EXCEPT ![t] = Head(rx)]
            /\ message' = [message EXCEPT ![t] = NoMsg]
            /\ elapsed' = [elapsed EXCEPT ![t] = 0]
            /\ pc' = [pc EXCEPT ![t] = "got_response"]
            /\ ndto' = [ndto EXCEPT ![t] = @ + 1]
            /\ UNCHANGED dropped
       ELSE /\ message' = [message EXCEPT ![t] = Head(rx)]
            /\ dropped' = [dropped EXCEPT ![t] = TRUE]
            /\ UNCHANGED <<response, elapsed, pc, ndto>>
    /\ UNCHANGED <<ctr, obj, call, msg, tmp, result, sends, before, calls, sent,
                   args, slaveConnections>>

\* transport.recv returns None: nothing arrived within residual_timeout
RecvNone(t) ==
    /\ pc[t] = "get_data"
    /\ Residual(t) > 0
    /\ rx = <<>>
    /\ message' = [message EXCEPT ![t] = NoMsg]
    /\ nrecv' = [nrecv EXCEPT ![t] = TRUE]
    /\ elapsed' = [elapsed EXCEPT ![t] = Max(@, call[t].timeout)]
    /\ UNCHANGED <<ctr, obj, pc, call, msg, tmp, response, result, sends, before, calls, rx, sent,
                   args, ndto, dropped, slaveConnections>>

(* ---------------------------- _transaction ----------------------------- *)
\* ccp.verify_ctr(ctr, response.data): the response echoes the counter sent
verify_ctr(c, data) == data.ctr = c

\* what _transaction returns for the ctr send_cro returned and get_data's response
TransactionResult(c, resp) ==
    IF resp = NoMsg THEN None
    ELSE IF ~verify_ctr(c, resp.data) THEN None
    ELSE Data(resp.data)

\* (a response with a wrong counter skipped and the wait resumed)
TransactionRepolls(t) ==
    /\ pc[t] = "got_response"
    /\ IF response[t] # NoMsg /\ ~verify_ctr(call[t].ctr, response[t].data)
       THEN /\ response' = [response EXCEPT ![t] = NoMsg]
            /\ pc' = [pc EXCEPT ![t] = "get_data"]
            /\ UNCHANGED result
       ELSE /\ result' = [result EXCEPT ![t] = TransactionResult(call[t].ctr, response[t])]
            /\ pc' = [pc EXCEPT ![t] = "done"]
            /\ UNCHANGED response
    /\ UNCHANGED <<ctr, obj, call, msg, tmp, elapsed, message, sends, nrecv,
                   before, calls, rx, sent,
                   args, ndto, dropped, slaveConnections>>

TransactionReturn(t) ==
    /\ pc[t] = "got_response"
    /\ result' = [result EXCEPT ![t] = TransactionResult(call[t].ctr, response[t])]
    /\ pc' = [pc EXCEPT ![t] = "done"]
    /\ UNCHANGED <<ctr, obj, call, msg, tmp, elapsed, message, response, sends, nrecv,
                   before, calls, rx, sent,
                   args, ndto, dropped, slaveConnections>>

\* the caller has the result; the frames of the call are gone
Return(t) ==
    /\ pc[t] = "done"
    /\ pc' = [pc EXCEPT ![t] = "idle"]
    /\ call' = [call EXCEPT ![t] = NoCall]
    /\ msg' = [msg EXCEPT ![t] = NoMsg]
    /\ tmp' = [tmp EXCEPT ![t] = 0]
    /\ elapsed' = [elapsed EXCEPT ![t] = 0]
    /\ message' = [message EXCEPT ![t] = NoMsg]
    /\ response' = [response EXCEPT ![t] = NoMsg]
    /\ result' = [result EXCEPT ![t] = NoResult]
    /\ sends' = [sends EXCEPT ![t] = <<>>]
    /\ nrecv' = [nrecv EXCEPT ![t] = FALSE]
    /\ args' = [args EXCEPT ![t] = NoArgs]
    /\ ndto' = [ndto EXCEPT ![t] = 0]
    /\ dropped' = [dropped EXCEPT ![t] = FALSE]
    /\ UNCHANGED <<ctr, obj, before, calls, rx, sent,
                   slaveConnections>>

(* ---------------------------- the transport ---------------------------- *)
\* the bus delivers a frame into the receive queue
Deliver ==
    /\ Len(rx) < MaxRx
    /\ \E f \in DtoFrames : rx' = Append(rx, f)
    /\ UNCHANGED <<ctr, obj, pc, call, msg, tmp, elapsed, message, response, result,
                   sends, nrecv, before, calls, sent,
                   args, ndto, dropped, slaveConnections>>

\* the bus delivers a frame that is on no Master's response identifier in use
DeliverForeign ==
    /\ Len(rx) < MaxRx
    /\ \E f \in DtoFrames :
          /\ \A t \in T : obj[t] # "none" => f.id # Dto(obj[t])
          /\ rx' = Append(rx, f)
    /\ UNCHANGED <<ctr, obj, pc, call, msg, tmp, elapsed, message, response, result,
                   sends, nrecv, before, calls, sent,
                   args, ndto, dropped, slaveConnections>>

\* time passes while a caller waits in get_data
Tick(t) ==
    /\ pc[t] = "get_data"
    /\ Residual(t) > 0
    /\ elapsed' = [elapsed EXCEPT ![t] = @ + 1]
    /\ UNCHANGED <<ctr, obj, pc, call, msg, tmp, message, response, result, sends, nrecv,
                   before, calls, rx, sent,
                   args, ndto, dropped, slaveConnections>>

(* --------------------------- specifications ---------------------------- *)
Step(t) ==
    \/ SendCroTooLong(t)
    \/ SendCroSend(t)
    \/ SendCroSendFails(t)
    \/ CtrRead(t)
    \/ CtrWrite(t)
    \/ GetDataExpired(t)
    \/ RecvFrame(t)
    \/ RecvNone(t)
    \/ TransactionReturn(t)
    \/ Return(t)
    \/ Tick(t)

Command(t) ==
    \/ Connect(t)
    \/ GetCcpVersion(t)
    \/ ExchangeId(t)
    \/ SetMta(t)
    \/ Dnload(t)
    \/ Upload(t)
    \/ GetDaqSize(t)
    \/ SetDaqPtr(t)
    \/ WriteDaq(t)
    \/ StartStop(t)
    \/ Disconnect(t)
    \/ Dnload6(t)
    \/ BuildChksum(t)
    \/ Unlock(t)
    \/ GetSeed(t)
    \/ Placeholder(t)

Next ==
    \/ \E t \in T : calls[t] < MaxCalls /\ Command(t)
    \/ \E t \in T : Step(t)
    \/ Deliver

Spec == Init /\ [][Next]_vars

\* send_cro(can_id, cmd, ctr, *data) called with every command code, every counter
\* value of a byte and payloads of 0..MaxData bytes
CommandCodes == {CONNECT, SET_MTA, DNLOAD, UPLOAD, START_STOP, DISCONNECT, BUILD_CHKSUM,
                 GET_SEED, UNLOCK, GET_DAQ_SIZE, SET_DAQ_PTR, WRITE_DAQ, EXCHANGE_ID,
                 GET_CCP_VERSION, DNLOAD_6}
Payloads == {SubSeq(Pattern, 1, n) : n \in 0..MaxData}

InitSendCro ==
    /\ Fresh([t \in T |-> IF t = "t1" THEN "A" ELSE "none"])
    /\ \E can_id \in CanIds, cmd \in CommandCodes, c \in 0..(UINT8 - 1), data \in Payloads :
          /\ pc = [t \in T |-> IF t = "t1" THEN "send_cro" ELSE "idle"]
          /\ call = [t \in T |-> IF t = "t1"
                                  THEN [method |-> "send_cro", timeout |-> 0, can_id |-> can_id,
                                        command |-> cmd, ctr |-> c, data |-> data]
                                  ELSE NoCall]

NextSendCro ==
    \E t \in T :
        \/ SendCroTooLong(t)
        \/ SendCroSend(t)
        \/ SendCroSendFails(t)
        \/ CtrRead(t)
        \/ CtrWrite(t)

SpecSendCro == InitSendCro /\ [][NextSendCro]_vars

\* one caller connecting again and again, long enough for the counter to wrap, on a
\* bus that accepts every frame and never carries one on the Master's response
\* identifier
LongRun == UINT8 + MaxCalls

NextQuiet ==
    \/ \E t \in T : calls[t] < LongRun /\ Connect(t)
    \/ \E t \in T : SendCroSend(t)
    \/ \E t \in T : CtrRead(t)
    \/ \E t \in T : CtrWrite(t)
    \/ \E t \in T : GetDataExpired(t)
    \/ \E t \in T : RecvFrame(t)
    \/ \E t \in T : RecvNone(t)
    \/ \E t \in T : TransactionReturn(t)
    \/ \E t \in T : Return(t)
    \/ \E t \in T : Tick(t)
    \/ DeliverForeign

SpecQuiet == Init /\ [][NextQuiet]_vars

\* two Masters with their own response identifiers on one transport, one caller each
InitShared == Fresh([t \in T |-> IF t = "t1" THEN "A" ELSE "B"]) /\ Idle

\* two callers on the same Master
InitRace == Fresh([t \in T |-> "A"]) /\ Idle

NextPair ==
    \/ \E t \in T : calls[t] < MaxCalls /\ Connect(t)
    \/ \E t \in T : SendCroSend(t)
    \/ \E t \in T : SendCroSendFails(t)
    \/ \E t \in T : CtrRead(t)
    \/ \E t \in T : CtrWrite(t)
    \/ \E t \in T : GetDataExpired(t)
    \/ \E t \in T : RecvFrame(t)
    \/ \E t \in T : RecvNone(t)
    \/ \E t \in T : TransactionReturn(t)
    \/ \E t \in T : Return(t)
    \/ \E t \in T : Tick(t)
    \/ Deliver

SpecShared == InitShared /\ [][NextPair]_vars
SpecRace == InitRace /\ [][NextPair]_vars

(* ------------------------------ properties ----------------------------- *)
\* the commands that pack an address, over addresses on each side of every byte
\* boundary (up to 0x7FFFFFFF, the largest integer TLC computes with), on a bus that
\* delivers nothing
Wide32 == {0, 1, 255, 256, 65535, 65536, 16777215, 16777216, 305419896, 2147483647}
Wide16 == {0, 1, 255, 256, 13124, 32768, 65535}
Bytes == {0, 1, 255}

NextEncode ==
    \/ \E t \in T : calls[t] < MaxCalls /\ SetMtaOf(t, Wide32, Bytes)
    \/ \E t \in T : calls[t] < MaxCalls /\ GetDaqSizeOf(t, Bytes, Wide32)
    \/ \E t \in T : calls[t] < MaxCalls /\ DisconnectOf(t, Wide16)
    \/ \E t \in T : SendCroSend(t)
    \/ \E t \in T : SendCroSendFails(t)
    \/ \E t \in T : CtrRead(t)
    \/ \E t \in T : CtrWrite(t)
    \/ \E t \in T : GetDataExpired(t)
    \/ \E t \in T : RecvNone(t)
    \/ \E t \in T : TransactionReturn(t)
    \/ \E t \in T : Return(t)
    \/ \E t \in T : Tick(t)

SpecEncode == Init /\ [][NextEncode]_vars

\* connect on a bus that keeps delivering frames, with a caller that keeps running
\* and a clock that keeps advancing while the caller waits
NextLive ==
    \/ \E t \in T : calls[t] < MaxCalls /\ Connect(t)
    \/ \E t \in T : SendCroSend(t)
    \/ \E t \in T : SendCroSendFails(t)
    \/ \E t \in T : CtrRead(t)
    \/ \E t \in T : CtrWrite(t)
    \/ \E t \in T : GetDataExpired(t)
    \/ \E t \in T : RecvFrame(t)
    \/ \E t \in T : RecvNone(t)
    \/ \E t \in T : TransactionReturn(t)
    \/ \E t \in T : Return(t)
    \/ \E t \in T : Tick(t)
    \/ Deliver

Running ==
    \A t \in T : /\ WF_vars(SendCroSend(t) \/ SendCroSendFails(t))
                  /\ WF_vars(CtrRead(t))
                  /\ WF_vars(CtrWrite(t))
                  /\ WF_vars(GetDataExpired(t))
                  /\ WF_vars(TransactionReturn(t))
                  /\ WF_vars(Tick(t))

SpecLive == Init /\ [][NextLive]_vars /\ Running

Callers == {t \in T : obj[t] # "none"}

\* the counter byte (byte1) of the frame the call built
CtrByte(t) == msg[t].data[2]

\* the call went through send_cro and get_data and _transaction returned
Transacted(t) == pc[t] = "done" /\ sends[t] = <<"ok">>

\* get_data ran out of time / returned a frame whose echoed counter is not the one sent
TimedOut(t) == Transacted(t) /\ response[t] = NoMsg
Mismatched(t) == Transacted(t) /\ response[t] # NoMsg /\ response[t].data.ctr # CtrByte(t)

\* C1: a transaction returns data only when get_data returned a frame on the Master's
\* response id whose echoed counter is the counter byte of the frame the transaction
\* sent, and the data returned is that frame's data; a frame on the response id with
\* another echoed counter makes the transaction return None.
C1_Correlated ==
    \A t \in Callers :
        /\ (pc[t] = "done" /\ result[t].kind = "data") =>
              /\ sends[t] = <<"ok">>
              /\ response[t] # NoMsg
              /\ response[t].id = Dto(obj[t])
              /\ response[t].data.ctr = CtrByte(t)
              /\ result[t].data = response[t].data
        /\ (pc[t] \in {"got_response", "done"} /\ response[t] # NoMsg) =>
              response[t].id = Dto(obj[t])
        /\ Mismatched(t) => result[t] = None

C1_Witness ==
    \E t \in Callers : pc[t] = "done" /\ result[t].kind = "data" /\ calls[t] = 2
                       /\ response[t].data.ctr = 1

\* C2: on a transport that never returns a frame on the Master's response id, a
\* transaction that has sent its frame ends with get_data timed out and None
\* returned, and the Master's counter is then one more (mod 256) than when the
\* command was called.
C2_Timeout ==
    \A t \in Callers :
        Transacted(t) => /\ TimedOut(t)
                         /\ result[t] = None
                         /\ ctr[obj[t]] = (before[t] + 1) % 256

C2_Witness ==
    \E t \in Callers : TimedOut(t) /\ nrecv[t] /\ before[t] = 255 /\ ctr[obj[t]] = 0 /\ rx # <<>>

\* C3: while a Master waits in get_data, a frame on its response id leaves the
\* transport only by being returned to that Master: no poll of another Master
\* removes it.
C3_OwnFramesOnly ==
    [][\A u \in Callers :
          (/\ pc[u] = "get_data"
           /\ rx # <<>>
           /\ Head(rx).id = Dto(obj[u])
           /\ \A t \in Callers \ {u} : obj[t] # obj[u]
           /\ rx' = Tail(rx))
          => (pc'[u] = "got_response" /\ response'[u] = Head(rx))]_vars

\* C4: two callers that each ran one command on the same Master sent frames with
\* different counter bytes, and the counter has advanced by two.
C4_AtomicCounter ==
    (/\ obj["t1"] = obj["t2"]
     /\ \A t \in T : Transacted(t) /\ calls[t] = 1)
    => /\ CtrByte("t1") # CtrByte("t2")
       /\ ctr[obj["t1"]] = 2

C6_CounterSequence ==
    \A t \in Callers :
        /\ ctr[obj[t]] \in 0..255
        /\ (sends[t] = <<"ok">>) => CtrByte(t) = (sent[obj[t]] - 1) % 256

C8_SendFailure ==
    \A t \in Callers :
        (Len(sends[t]) > 0 /\ sends[t][Len(sends[t])] = "failed") =>
            /\ pc[t] = "done"
            /\ result[t] = Raised("CanError")
            /\ ~nrecv[t]
            /\ response[t] = NoMsg

C8_Witness == \E t \in Callers : sends[t] = <<"failed">> /\ pc[t] = "done" /\ rx # <<>>

\* C9: a transaction that timed out and one that met a wrong echoed counter return
\* different things to their callers.
C9_Distinguishable ==
    \A t, u \in Callers : (TimedOut(t) /\ Mismatched(u)) => result[t] # result[u]

\* C10: the frame send_cro hands to the transport has 8 data bytes: the command
\* code, the ctr argument, the payload bytes in order, then zero bytes; and its
\* arbitration id is the can_id argument.
C10_FrameLayout ==
    \A t \in Callers :
        msg[t] # NoMsg =>
            LET d == msg[t].data
                p == call[t].data
            IN  /\ Len(p) <= 6
                /\ Len(d) = 8
                /\ d[1] = call[t].command
                /\ d[2] = call[t].ctr
                /\ \A i \in 1..Len(p) : d[2 + i] = p[i]
                /\ \A i \in (3 + Len(p))..8 : d[i] = 0
                /\ msg[t].id = call[t].can_id

C10_Witness ==
    \E t \in Callers : /\ sends[t] = <<"ok">>
                       /\ call[t].ctr = 255
                       /\ Len(call[t].data) = 3
                       /\ msg[t].data = <<call[t].command, 255, 9, 8, 7, 0, 0, 0>>

\* C11: dnload6(can_id, data) with exactly 6 data bytes sends, on can_id, one frame
\* whose byte0 is DNLOAD_6, whose byte1 is the Master's counter at the call and whose
\* bytes 2..7 are the 6 data bytes (no size byte), and then waits for the response
\* with the DNLOAD_6 command timeout.
C11_Dnload6Frame ==
    \A t \in Callers :
        (call[t].method = "dnload6" /\ Len(args[t].data) = 6 /\ msg[t] # NoMsg) =>
            /\ msg[t].id = args[t].can_id
            /\ msg[t].data = <<DNLOAD_6, before[t]>> \o args[t].data
            /\ call[t].timeout = CommandTimeout(DNLOAD_6)

\* the frame a dnload call with these arguments is to put on the bus: DNLOAD, the
\* counter at the call, the size byte, the data bytes, then zero bytes
DnloadFrame(t) ==
    [id   |-> args[t].can_id,
     data |-> <<DNLOAD, before[t], args[t].size>> \o args[t].data
                  \o Zeros(MAX_PAYLOAD - 1 - Len(args[t].data))]

\* C12 (as stated): dnload(size, data) accepts every size 0..6 with that many data
\* bytes and hands the transport one frame with payload [size, data...]; a 6-byte
\* download is transmitted rather than rejected.
C12_DnloadUpTo6 ==
    \A t \in Callers :
        (call[t].method = "dnload" /\ pc[t] # "send_cro" /\ args[t].size \in 0..6) =>
            /\ Len(sends[t]) = 1
            /\ result[t] # Raised("ValueError")
            /\ msg[t] # NoMsg
            /\ msg[t].id = args[t].can_id
            /\ SubSeq(msg[t].data, 1, 3) = <<DNLOAD, before[t], args[t].size>>
            /\ \A i \in 1..Len(args[t].data) :
                   i + 3 <= Len(msg[t].data) /\ msg[t].data[i + 3] = args[t].data[i]

\* C12 (amended): dnload(size, data) accepts every size 0..5 with that many data
\* bytes and hands the transport one frame with payload [size, data...] padded with
\* zero bytes; with 6 or more data bytes the call raises ValueError, nothing is
\* handed to the transport, no response is awaited and the counter is unchanged.
C12_DnloadUpTo5 ==
    \A t \in Callers :
        (call[t].method = "dnload" /\ pc[t] # "send_cro") =>
            /\ args[t].size \in 0..5 =>
                  /\ Len(sends[t]) = 1
                  /\ result[t] # Raised("ValueError")
                  /\ msg[t] = DnloadFrame(t)
            /\ args[t].size >= 6 =>
                  /\ pc[t] = "done"
                  /\ result[t] = Raised("ValueError")
                  /\ sends[t] = <<>>
                  /\ msg[t] = NoMsg
                  /\ ~nrecv[t]
                  /\ ctr[obj[t]] = before[t]

C12_Witness ==
    \E t \in Callers :
        /\ call[t].method = "dnload"
        /\ args[t].data = <<9, 8, 7, 6, 5>>
        /\ msg[t].data = <<DNLOAD, 0, 5, 9, 8, 7, 6, 5>>
        /\ pc[t] = "done"
        /\ result[t].kind = "data"

\* the four payload bytes from position i on, read as a little-endian / big-endian
\* number, and the two from position i on as a little-endian number
LE32At(d, i) == d[i] + 256 * d[i + 1] + 65536 * d[i + 2] + 16777216 * d[i + 3]
BE32At(d, i) == 16777216 * d[i] + 65536 * d[i + 1] + 256 * d[i + 2] + d[i + 3]
LE16At(d, i) == d[i] + 256 * d[i + 1]
IsBytes(d) == \A i \in 1..Len(d) : d[i] \in 0..255

\* C13: the frame of set_mta carries the payload [mta, address_extension, a0, a1, a2,
\* a3] with the address little-endian (a0 the low byte); address 0x12345678 with
\* extension 0 on MTA0 is encoded as [MTA0, 0x00, 0x78, 0x56, 0x34, 0x12].
C13_SetMtaPayload ==
    \A t \in Callers :
        (call[t].method = "set_mta" /\ msg[t] # NoMsg) =>
            LET d == msg[t].data
            IN  /\ Len(d) = 8 /\ IsBytes(d)
                /\ d[1] = SET_MTA
                /\ d[3] = args[t].mta
                /\ d[4] = args[t].address_extension
                /\ LE32At(d, 5) = args[t].address
                /\ (args[t].address = 305419896 /\ args[t].address_extension = 0
                      /\ args[t].mta = MTA0)
                       => SubSeq(d, 3, 8) = <<MTA0, 0, 120, 86, 52, 18>>

C13_Witness ==
    \E t \in Callers :
        /\ call[t].method = "set_mta" /\ sends[t] = <<"ok">>
        /\ args[t] = [can_id |-> 1, address |-> 305419896, address_extension |-> 0, mta |-> MTA0]
        /\ msg[t].data = <<SET_MTA, 1, MTA0, 0, 120, 86, 52, 18>>

\* C14: the frame of get_daq_size carries the payload [daq_list_number, 0x00, then
\* the 4 address bytes big-endian (high byte first)]; list 1 with address 0x12345678
\* is encoded as [1, 0x00, 0x12, 0x34, 0x56, 0x78].
C14_GetDaqSizePayload ==
    \A t \in Callers :
        (call[t].method = "get_daq_size" /\ msg[t] # NoMsg) =>
            LET d == msg[t].data
            IN  /\ Len(d) = 8 /\ IsBytes(d)
                /\ d[1] = GET_DAQ_SIZE
                /\ d[3] = args[t].daq_list_number
                /\ d[4] = 0
                /\ BE32At(d, 5) = args[t].address
                /\ (args[t].address = 305419896 /\ args[t].daq_list_number = 1)
                       => SubSeq(d, 3, 8) = <<1, 0, 18, 52, 86, 120>>

C14_Witness ==
    \E t \in Callers :
        /\ call[t].method = "get_daq_size" /\ sends[t] = <<"ok">>
        /\ args[t] = [can_id |-> 1, daq_list_number |-> 1, address |-> 305419896]
        /\ msg[t].data = <<GET_DAQ_SIZE, 1, 1, 0, 18, 52, 86, 120>>

\* C15: the frame of disconnect carries the payload [disconnect_type, 0x00, low, high]
\* with the 16-bit station address little-endian, and the two payload bytes after it
\* are zero; PERMANENT with station address 0x3344 is encoded as
\* [PERMANENT, 0x00, 0x44, 0x33].
C15_DisconnectPayload ==
    \A t \in Callers :
        (call[t].method = "disconnect" /\ msg[t] # NoMsg) =>
            LET d == msg[t].data
            IN  /\ Len(d) = 8 /\ IsBytes(d)
                /\ d[1] = DISCONNECT
                /\ d[3] = args[t].disconnect_type
                /\ d[4] = 0
                /\ LE16At(d, 5) = args[t].address
                /\ d[7] = 0 /\ d[8] = 0
                /\ (args[t].address = 13124 /\ args[t].disconnect_type = PERMANENT)
                       => SubSeq(d, 3, 6) = <<PERMANENT, 0, 68, 51>>

C15_Witness ==
    \E t \in Callers :
        /\ call[t].method = "disconnect" /\ sends[t] = <<"ok">>
        /\ args[t] = [can_id |-> 0, disconnect_type |-> PERMANENT, address |-> 13124]
        /\ msg[t].data = <<DISCONNECT, 1, PERMANENT, 0, 68, 51, 0, 0>>

\* C16: after a successful set_mta the Master's connection to that slave holds, in
\* the selected pointer slot, the address and address extension of the call (the
\* other slot as it was); a set_mta that failed leaves both slots as they were.
C16_StoredPointer ==
    \A t \in Callers :
        (pc[t] = "done" /\ call[t].method = "set_mta" /\ result[t].kind = "data") =>
            /\ args[t].can_id \in DOMAIN slaveConnections[obj[t]]
            /\ slaveConnections[obj[t]][args[t].can_id][args[t].mta] =
                   [address |-> args[t].address,
                    address_extension |-> args[t].address_extension]

\* rx with some frames delivered behind it
Extends(later, earlier) ==
    Len(later) >= Len(earlier) /\ SubSeq(later, 1, Len(earlier)) = earlier

\* a frame on the caller's response id that echoes the counter byte the call sent
Correct(t, f) == f.id = Dto(obj[t]) /\ f.data.ctr = CtrByte(t)

\* C17: a transaction takes at most one frame with the response id from the
\* transport; when that frame echoes another counter the transaction returns None
\* without another poll, and once get_data has returned the call takes nothing more
\* off the transport, so that a correct frame arriving later stays there.
C17_OneResponseFrame ==
    [][\A t \in Callers :
          /\ ndto'[t] <= 1
          /\ Mismatched(t)' => (result'[t] = None /\ ndto'[t] = 1)
          /\ pc[t] \in {"got_response", "done"} =>
                 /\ Extends(rx', rx)
                 /\ pc'[t] \in {"got_response", "done", "idle"}
                 /\ pc'[t] # "idle" => (ndto'[t] = ndto[t] /\ response'[t] = response[t])]_vars

C17_Witness ==
    \E t \in Callers : /\ Mismatched(t)
                       /\ result[t] = None
                       /\ rx # <<>>
                       /\ Correct(t, Head(rx))

\* the caller's get_data takes the frame at the head of the receive queue in this step
Takes(t) == pc[t] = "get_data" /\ rx # <<>> /\ rx' = Tail(rx)

\* C18: get_data drops a frame whose id is not the response id and goes on waiting
\* with the time it had; a frame on the response id that it takes before the
\* deadline is handed to _transaction, and when that frame echoes the counter sent
\* its data is the result of the call, whether or not frames were dropped before it.
C18_OthersDiscarded ==
    [][\A t \in Callers :
          /\ (Takes(t) /\ Head(rx).id # Dto(obj[t])) =>
                 /\ pc'[t] = "get_data"
                 /\ response'[t] = NoMsg
                 /\ elapsed'[t] = elapsed[t]
                 /\ result'[t] = NoResult
          /\ (Takes(t) /\ Head(rx).id = Dto(obj[t])) =>
                 /\ Residual(t) > 0
                 /\ pc'[t] = "got_response"
                 /\ response'[t] = Head(rx)
          /\ (pc[t] = "got_response" /\ pc'[t] = "done" /\ response[t] # NoMsg
                /\ Correct(t, response[t])) =>
                 result'[t] = Data(response[t].data)]_vars

C18_Witness ==
    \E t \in Callers : /\ pc[t] = "done"
                       /\ dropped[t]
                       /\ ndto[t] = 1
                       /\ Correct(t, response[t])
                       /\ result[t] = Data(response[t].data)

\* C19: a transaction with a finite timeout terminates, however many frames with
\* other ids the bus keeps delivering: the time left is measured from the start of
\* get_data and a dropped frame does not give it back.
C19_Terminates ==
    \A t \in T : (pc[t] = "send_cro") ~> (pc[t] = "done")

C19_Witness ==
    \E t \in Callers : /\ TimedOut(t)
                       /\ dropped[t]
                       /\ result[t] = None
                       /\ rx # <<>>

\* C20: the counter changes only after a send that completed (by one, modulo 256); a
\* call in which send_cro raised - ValueError for more than 6 payload bytes, or the
\* exception of the transport's send - ends with the counter it began with, and a
\* command passes the counter as it stands to _transaction (dnload6 in the place of
\* the command code), so the next command has that value again.
C20_CounterOnlyOnSend ==
    [][\A t \in Callers :
          /\ ctr'[obj[t]] # ctr[obj[t]] =>
                 /\ pc[t] = "ctr_write"
                 /\ sends[t] = <<"ok">>
                 /\ ctr'[obj[t]] = (ctr[obj[t]] + 1) % UINT8
          /\ (pc'[t] = "done" /\ result'[t] \in {Raised("ValueError"), Raised("CanError")}) =>
                 /\ ctr'[obj[t]] = before'[t]
                 /\ ctr'[obj[t]] = sent'[obj[t]] % UINT8
          /\ (pc[t] = "idle" /\ pc'[t] = "send_cro") =>
                 /\ before'[t] = ctr[obj[t]]
                 /\ ctr[obj[t]] = IF call'[t].method = "dnload6" THEN call'[t].command
                                                                ELSE call'[t].ctr]_vars

C20_Witness ==
    \E t \in Callers : /\ pc[t] = "done"
                       /\ result[t] = Raised("CanError")
                       /\ calls[t] = 2
                       /\ sent[obj[t]] = 1
                       /\ CtrByte(t) = 1
                       /\ ctr[obj[t]] = 1

====
